---------------------------- MODULE Spec2Model ----------------------------
(***************************************************************************)
(* Risk normalization (safe-f / CAR25), src/risk_normalization.py.         *)
(*                                                                         *)
(* The program works on IEEE doubles.  A number is modelled as a pair      *)
(* <<n, d>>: with d > 0 it is the exact rational n/d in lowest terms; with *)
(* d = 0 it is one of the three special doubles, <<1,0>> = +inf,           *)
(* <<-1,0>> = -inf, <<0,0>> = nan.  The operators below follow the IEEE    *)
(* rules for the special values (inf * 0 = nan, inf - inf = nan, x / 0 =   *)
(* +-inf, every comparison with nan is false); rounding of finite results  *)
(* is not modelled.  The trades are a numpy array, so the arithmetic is    *)
(* numpy's: a division by zero yields inf or nan and raises nothing.       *)
(***************************************************************************)
EXTENDS Integers, Sequences, FiniteSets, TLC

\* ------------------------------------------------------------- numbers
\* The arithmetic is written as functions, whose arguments TLC evaluates
\* once, before the application.

Num == Int \X Int

GCD[a \in Nat, b \in Nat] == IF b = 0 THEN a ELSE GCD[b, a % b]

AbsInt(k) == IF k < 0 THEN -k ELSE k

SignInt(k) == IF k < 0 THEN -1 ELSE IF k > 0 THEN 1 ELSE 0

\* n/d in lowest terms with a positive denominator (d # 0)
Rat[n \in Int, d \in Int] ==
    LET g == GCD[AbsInt(n), AbsInt(d)]
        s == IF d < 0 THEN -1 ELSE 1
    IN  <<s * (n \div g), s * (d \div g)>>

Zero == <<0, 1>>
One == <<1, 1>>
Half == <<1, 2>>
NaN == <<0, 0>>
PosInf == <<1, 0>>
NegInf == <<-1, 0>>

Finite(x) == x[2] # 0
IsNaN(x) == x = NaN
Sign(x) == SignInt(x[1])
InfOfSign(s) == <<s, 0>>

Neg(x) == <<-x[1], x[2]>>
AbsV(x) == <<AbsInt(x[1]), x[2]>>

Mul[x \in Num, y \in Num] ==
    IF IsNaN(x) \/ IsNaN(y) THEN NaN
    ELSE IF Finite(x) /\ Finite(y)
         THEN LET g1 == GCD[AbsInt(x[1]), y[2]]
                  g2 == GCD[AbsInt(y[1]), x[2]]
              IN  Rat[(x[1] \div g1) * (y[1] \div g2),
                      (x[2] \div g2) * (y[2] \div g1)]
    ELSE IF Sign(x) = 0 \/ Sign(y) = 0 THEN NaN
    ELSE InfOfSign(Sign(x) * Sign(y))

Add[x \in Num, y \in Num] ==
    IF IsNaN(x) \/ IsNaN(y) THEN NaN
    ELSE IF Finite(x) /\ Finite(y)
         THEN LET g == GCD[x[2], y[2]]
              IN  Rat[x[1] * (y[2] \div g) + y[1] * (x[2] \div g),
                      (x[2] \div g) * y[2]]
    ELSE IF Finite(x) THEN y
    ELSE IF Finite(y) THEN x
    ELSE IF x = y THEN x ELSE NaN

Sub[x \in Num, y \in Num] == Add[x, Neg(y)]

\* x / y.  A zero divisor is the double +0.0 wherever the program divides by
\* one (a drawdown of a curve whose peak is positive), so x / 0 has x's sign.
Div[x \in Num, y \in Num] ==
    IF IsNaN(x) \/ IsNaN(y) THEN NaN
    ELSE IF ~Finite(y) THEN (IF Finite(x) THEN Zero ELSE NaN)
    ELSE IF Sign(y) = 0 THEN (IF Sign(x) = 0 THEN NaN ELSE InfOfSign(Sign(x)))
    ELSE IF ~Finite(x) THEN InfOfSign(Sign(x) * Sign(y))
    ELSE Mul[x, Rat[y[2], y[1]]]

\* x < y; false when either is nan
Lt[x \in Num, y \in Num] ==
    IF IsNaN(x) \/ IsNaN(y) THEN FALSE
    ELSE IF Finite(x) /\ Finite(y)
         THEN LET g == GCD[x[2], y[2]]
              IN  x[1] * (y[2] \div g) < y[1] * (x[2] \div g)
    ELSE IF Finite(x) THEN y = PosInf
    ELSE IF Finite(y) THEN x = NegInf
    ELSE x = NegInf /\ y = PosInf

Le[x \in Num, y \in Num] == Lt[x, y] \/ (~IsNaN(x) /\ x = y)

\* Python's builtin max(a, b): b if b > a, else a (so a nan first argument is
\* returned, and a nan second argument is dropped)
PyMax[a \in Num, b \in Num] == IF Lt[a, b] THEN b ELSE a

\* ------------------------------------------------------- numpy helpers

\* the order np.sort puts doubles in: ascending, every nan last
SortLe[x \in Num, y \in Num] ==
    IF IsNaN(y) THEN TRUE ELSE IF IsNaN(x) THEN FALSE ELSE Le[x, y]

RECURSIVE Insert(_, _)
Insert(x, s) ==
    IF s = <<>> THEN <<x>>
    ELSE IF SortLe[x, Head(s)] THEN <<x>> \o s
    ELSE <<Head(s)>> \o Insert(x, Tail(s))

RECURSIVE NpSort(_)
NpSort(s) == IF s = <<>> THEN <<>> ELSE Insert(Head(s), NpSort(Tail(s)))

\* numpy's linear interpolation between two neighbouring order statistics
Lerp[a \in Num, b \in Num, t \in Num] ==
    LET diff_b_a == Sub[b, a]
    IN  IF Le[Half, t] THEN Sub[b, Mul[diff_b_a, Sub[One, t]]]
        ELSE Add[a, Mul[diff_b_a, t]]

\* np.percentile(a, q), method 'linear', q an integer in 0..100, a not empty:
\* the value at the virtual index (n - 1) * q / 100 of the sorted sample, nan
\* as soon as the sample holds a nan
NpPercentile(a, q) ==
    LET arr == NpSort(a)
        n == Len(arr)
        pos == (n - 1) * q
        lo == pos \div 100
        hi == IF lo + 1 > n - 1 THEN n - 1 ELSE lo + 1
        gamma == Rat[pos % 100, 100]
    IN  IF IsNaN(arr[n]) THEN NaN ELSE Lerp[arr[lo + 1], arr[hi + 1], gamma]

\* --------------------------------------------------- program constants

\* Defaults of make_one_equity_sequence (forecast_length=500) and of the two
\* distribution functions (number_sequences=1000).  A curve of 500 periods and
\* a sample of 1000 curves cannot be enumerated: the model keeps the defaults
\* as named values, scaled down.
Default_forecast_length == 2
Default_number_sequences == 2

Default_initial_capital == 100000
Default_tail_percentile == 5
NumReps == 5
PeriodsPerYear == 252
Driver_forecast_length == 500
Driver_initial_capital == 100000
TWR_percentile == 25

\* drawdown_tolerance = 0.10, desired_accuracy = 0.003
drawdown_tolerance == Rat[1, 10]
desired_accuracy == Rat[3, 1000]

\* ------------------------------------------------------------ state

VARIABLES
    pc,               \* position of the module-level driver (or of the caller)
    rep,              \* for rep in range(5)
    trades,           \* the trade list
    fraction, tail_risk, safe_f, done,
    forecast_length,  \* the driver's forecast_length (set before CAR25)
    CDF_equity, TWR25, CAR25,
    est,              \* frame of analyze_distribution_of_drawdown /
                      \* form_distribution_of_equity, or Idle
    sim,              \* frame of make_one_equity_sequence, or Idle
    ret,              \* value returned to a direct caller of a function
    error,            \* the uncaught exception that ended the program
    call              \* the outermost call and the arguments it was given

vars == <<pc, rep, trades, fraction, tail_risk, safe_f, done, forecast_length,
          CDF_equity, TWR25, CAR25, est, sim, ret, error, call>>

driverVars == <<rep, fraction, tail_risk, safe_f, done, forecast_length,
                CDF_equity, TWR25, CAR25, call>>

\* a name not yet bound
Unset == <<0, -1>>

Idle == [fn |-> "none"]

\* ------------------------------------------ make_one_equity_sequence

\* np.zeros(n)
RECURSIVE NpZeros(_)
NpZeros(n) == IF n <= 0 THEN <<>> ELSE <<Zero>> \o NpZeros(n - 1)

\* the frame after lines 197-217, called with these arguments
SimFrame(frac, fl, ic) ==
    [fn |-> "make_one_equity_sequence",
     fraction |-> frac, forecast_length |-> fl, initial_capital |-> ic,
     equity |-> ic, max_equity |-> ic,
     drawdown |-> Zero, max_drawdown |-> Zero,
     daily_equity |-> NpZeros(fl), i |-> 0]

\* Faulty variant of Bootstrap: the drawn trade is taken out of the pool, as trades.pop would
Bootstrap_pop(pool, trade_index) ==
    [trade |-> pool[trade_index + 1],
     pool |-> SubSeq(pool, 1, trade_index) \o
              SubSeq(pool, trade_index + 2, Len(pool))]

\* trade = trades[trade_index]: reads the pool, which stays as it is
Bootstrap(pool, trade_index) ==
    [trade |-> pool[trade_index + 1], pool |-> pool]

\* Faulty variant of TradeDollars: the fraction is left out of the product
TradeDollars_unscaled(equity, frac, trade) == Mul[equity, trade]

\* trade_dollars = equity * fraction * trade
TradeDollars(equity, frac, trade) == Mul[Mul[equity, frac], trade]

\* Faulty variant of Drawdown: the retracement is divided by the current equity, not the peak
Drawdown_of_equity(max_equity, equity) == Div[Sub[max_equity, equity], equity]

\* drawdown = (max_equity - equity) / max_equity
Drawdown(max_equity, equity) == Div[Sub[max_equity, equity], max_equity]

\* one pass of the loop body, lines 222-229, having drawn trade
StepFrame(s, trade) ==
    LET equity == Add[s.equity, TradeDollars(s.equity, s.fraction, trade)]
        max_equity == PyMax[equity, s.max_equity]
        drawdown == Drawdown(max_equity, equity)
        max_drawdown == PyMax[drawdown, s.max_drawdown]
    IN  [s EXCEPT !.equity = equity, !.max_equity = max_equity,
                  !.drawdown = drawdown, !.max_drawdown = max_drawdown,
                  !.daily_equity = [@ EXCEPT ![s.i + 1] = equity],
                  !.i = s.i + 1]

SimRunning == sim # Idle /\ sim.i < sim.forecast_length
SimFinished == sim # Idle /\ sim.i >= sim.forecast_length

\* lines 221-229: one period of the curve, the trade drawn by
\* random.randint(0, pool_size - 1)
SimStep ==
    /\ SimRunning
    /\ Len(trades) > 0
    /\ \E trade_index \in 0..(Len(trades) - 1) :
          LET b == Bootstrap(trades, trade_index)
          IN  /\ sim' = StepFrame(sim, b.trade)
              /\ trades' = b.pool
    /\ UNCHANGED <<pc, driverVars, est, ret, error>>

\* line 222 on an empty pool: random.randint(0, -1) raises ValueError, which
\* nothing catches
SimRaise ==
    /\ SimRunning
    /\ Len(trades) = 0
    /\ pc' = "crashed"
    /\ error' = "ValueError"
    /\ sim' = Idle
    /\ est' = Idle
    /\ UNCHANGED <<driverVars, trades, ret>>

\* ------------------- analyze_distribution_of_drawdown, form_distribution_of_equity

\* the frame of analyze_distribution_of_drawdown(trades, frac, fl, ic,
\* weighting, ns, tp) after lines 257-258
DrawdownFrame(frac, fl, ic, ns, tp) ==
    [fn |-> "analyze_distribution_of_drawdown",
     fraction |-> frac, forecast_length |-> fl, initial_capital |-> ic,
     number_sequences |-> ns, tail_percentile |-> tp,
     equity_list |-> <<>>, max_dd_list |-> <<>>, i |-> 0]

\* the frame of form_distribution_of_equity(trades, frac, fl, ic, ns) after
\* lines 304-305
EquityFrame(frac, fl, ic, ns) ==
    [fn |-> "form_distribution_of_equity",
     fraction |-> frac, forecast_length |-> fl, initial_capital |-> ic,
     number_sequences |-> ns,
     equity_list |-> <<>>, max_dd_list |-> <<>>, i |-> 0]

\* lines 261 and 308: make_one_equity_sequence(trades, fraction).  Only the
\* fraction is passed on; the curve runs on the simulator's own defaults.
CurveOf(e) ==
    SimFrame(e.fraction, Default_forecast_length, <<Default_initial_capital, 1>>)

EstRunning == est # Idle /\ est.i < est.number_sequences
EstFinished == est # Idle /\ est.i >= est.number_sequences

\* lines 260-261 / 307-308: the next curve is started
EstCall ==
    /\ EstRunning
    /\ sim = Idle
    /\ sim' = CurveOf(est)
    /\ UNCHANGED <<pc, driverVars, trades, est, ret, error>>

\* lines 237, 261-263 / 308-310: the curve returns (equity, max_drawdown),
\* which are appended to the two lists
EstCollect ==
    /\ est # Idle
    /\ SimFinished
    /\ est' = [est EXCEPT !.equity_list = Append(@, sim.equity),
                          !.max_dd_list = Append(@, sim.max_drawdown),
                          !.i = @ + 1]
    /\ sim' = Idle
    /\ UNCHANGED <<pc, driverVars, trades, ret, error>>

\* lines 265-271: the value analyze_distribution_of_drawdown returns
TailRisk(e) == NpPercentile(NpSort(e.max_dd_list), 100 - e.tail_percentile)

\* lines 312-316: the value form_distribution_of_equity returns
SortedEquity(e) == NpSort(e.equity_list)


\* ------------------------------------------------ module-level driver

\* The trade lists the driver is run on.  (Line 346 reads trades.csv; the list
\* is taken as given, a one-dimensional array of returns.)
Pools ==
    { <<>>,
      <<Zero>>,
      <<Rat[-1, 10]>>,
      <<Rat[-1, 1], Rat[-1, 20]>> }

\* The largest numerator or denominator of a fraction the model follows the
\* solver to; a rescale to a finite fraction beyond it is not explored.
MaxTerm == 20

Representable(x) == Finite(x) => (AbsInt(x[1]) <= MaxTerm /\ x[2] <= MaxTerm)

Init ==
    /\ pc = "rep"
    /\ rep = 0
    /\ trades \in Pools
    /\ fraction = Unset /\ tail_risk = Unset /\ safe_f = Unset
    /\ done = FALSE
    /\ forecast_length = 0
    /\ CDF_equity = <<>> /\ TWR25 = Unset /\ CAR25 = <<>>
    /\ est = Idle /\ sim = Idle
    /\ ret = <<>>
    /\ error = "none"
    /\ call = [fn |-> "main"]

\* lines 360-370: a repetition begins; fraction = 1.00 and the first
\* analyze_distribution_of_drawdown(trades) is called, all defaults
RepStart ==
    /\ pc = "rep"
    /\ rep < NumReps
    /\ fraction' = One
    /\ est' = DrawdownFrame(One, Default_forecast_length,
                            <<Default_initial_capital, 1>>,
                            Default_number_sequences, Default_tail_percentile)
    /\ pc' = "line370"
    /\ UNCHANGED <<rep, trades, tail_risk, safe_f, done, forecast_length,
                   CDF_equity, TWR25, CAR25, sim, ret, error, call>>

\* lines 370-378: the first estimate returns; fraction = 1.0, done = False
SolveStart ==
    /\ pc = "line370"
    /\ EstFinished
    /\ tail_risk' = TailRisk(est)
    /\ fraction' = One
    /\ done' = FALSE
    /\ est' = Idle
    /\ pc' = "while"
    /\ UNCHANGED <<rep, trades, safe_f, forecast_length, CDF_equity, TWR25,
                   CAR25, sim, ret, error, call>>

\* lines 379-381: while not done: analyze_distribution_of_drawdown(trades,
\* fraction) is called
SolvePass ==
    /\ pc = "while"
    /\ ~done
    /\ est' = DrawdownFrame(fraction, Default_forecast_length,
                            <<Default_initial_capital, 1>>,
                            Default_number_sequences, Default_tail_percentile)
    /\ pc' = "line381"
    /\ UNCHANGED <<driverVars, trades, sim, ret, error>>

\* line 381: the estimate returns into tail_risk
SolveEstimate ==
    /\ pc = "line381"
    /\ EstFinished
    /\ tail_risk' = TailRisk(est)
    /\ est' = Idle
    /\ pc' = "line384"
    /\ UNCHANGED <<rep, trades, fraction, safe_f, done, forecast_length,
                   CDF_equity, TWR25, CAR25, sim, ret, error, call>>

\* line 384: abs(tail_risk - drawdown_tolerance) < desired_accuracy
Converged(risk) == Lt[AbsV(Sub[risk, drawdown_tolerance]), desired_accuracy]

\* line 386: the value bound to safe_f on convergence
SafeF(frac, risk) == risk

\* line 389: fraction * drawdown_tolerance / tail_risk
Rescale(frac, risk) == Div[Mul[frac, drawdown_tolerance], risk]

\* lines 384-387: converged
SolveConverged ==
    /\ pc = "line384"
    /\ Converged(tail_risk)
    /\ safe_f' = SafeF(fraction, tail_risk)
    /\ done' = TRUE
    /\ pc' = "while"
    /\ UNCHANGED <<rep, trades, fraction, tail_risk, forecast_length,
                   CDF_equity, TWR25, CAR25, est, sim, ret, error, call>>

\* lines 388-389: not converged, the fraction is rescaled
SolveRescale ==
    /\ pc = "line384"
    /\ ~Converged(tail_risk)
    /\ Representable(Rescale(fraction, tail_risk))
    /\ fraction' = Rescale(fraction, tail_risk)
    /\ pc' = "while"
    /\ UNCHANGED <<rep, trades, tail_risk, safe_f, done, forecast_length,
                   CDF_equity, TWR25, CAR25, est, sim, ret, error, call>>

\* lines 391-400: the loop is left; forecast_length = 500 and
\* form_distribution_of_equity(trades, fraction=fraction) is called
EquityCall ==
    /\ pc = "while"
    /\ done
    /\ forecast_length' = Driver_forecast_length
    /\ est' = EquityFrame(fraction, Default_forecast_length,
                          <<Default_initial_capital, 1>>,
                          Default_number_sequences)
    /\ pc' = "line400"
    /\ UNCHANGED <<rep, trades, fraction, tail_risk, safe_f, done,
                   CDF_equity, TWR25, CAR25, sim, ret, error, call>>

\* lines 400-401: CDF_equity and its 25th percentile
EquityEstimate ==
    /\ pc = "line400"
    /\ EstFinished
    /\ CDF_equity' = SortedEquity(est)
    /\ TWR25' = NpPercentile(SortedEquity(est), TWR_percentile)
    /\ est' = Idle
    /\ pc' = "line404"
    /\ UNCHANGED <<rep, trades, fraction, tail_risk, safe_f, done,
                   forecast_length, CAR25, sim, ret, error, call>>

\* TWR25 / initial_capital, the argument of math.log at line 405
LogArgument(twr) == Div[twr, <<Driver_initial_capital, 1>>]

\* math.log(x) raises ValueError unless x > 0 (or x is nan, which it returns)
MathLogDefined(x) == IsNaN(x) \/ Lt[Zero, x]

\* 100.0 * (math.exp((252.0 / forecast_length) * math.log(x)) - 1.0) is
\* irrational in general: it is kept as the pair <<x, 252 / forecast_length>>,
\* which determines it (y -> y^e is one-to-one on y > 0 for a fixed e > 0)
Car25Value(x, fl) == <<x, Rat[PeriodsPerYear, fl]>>

\* lines 404-406: CAR25 is computed and the repetition ends
Car25Done ==
    /\ pc = "line404"
    /\ MathLogDefined(LogArgument(TWR25))
    /\ CAR25' = Car25Value(LogArgument(TWR25), forecast_length)
    /\ rep' = rep + 1
    /\ pc' = "rep"
    /\ UNCHANGED <<trades, fraction, tail_risk, safe_f, done, forecast_length,
                   CDF_equity, TWR25, est, sim, ret, error, call>>

\* line 405: math.log of a value <= 0 raises ValueError, which nothing catches
Car25Raise ==
    /\ pc = "line404"
    /\ ~MathLogDefined(LogArgument(TWR25))
    /\ pc' = "crashed"
    /\ error' = "ValueError"
    /\ UNCHANGED <<driverVars, trades, est, sim, ret>>

\* the loop over rep is exhausted: the program ends
Exit ==
    /\ pc = "rep"
    /\ rep >= NumReps
    /\ pc' = "exit"
    /\ UNCHANGED <<driverVars, trades, est, sim, ret, error>>

Next ==
    \/ RepStart \/ SolveStart \/ SolvePass \/ SolveEstimate
    \/ SolveConverged \/ SolveRescale
    \/ EquityCall \/ EquityEstimate \/ Car25Done \/ Car25Raise \/ Exit
    \/ EstCall \/ EstCollect \/ SimStep \/ SimRaise

Spec == Init /\ [][Next]_vars


FairSpec == Init /\ [][Next]_vars /\ WF_vars(Next)

\* ------------------------------------------- the functions called directly

\* Arguments a caller passes to the three functions.
CallPools == { <<>>, <<Rat[-1, 1], Rat[1, 2]>> }
CallFractions == { Zero, Rat[1, 2], One, Rat[2, 1] }
CallLengths == { 0, 1, Default_forecast_length + 1 }
CallCapitals == { Rat[-100, 1], Zero, Rat[100, 1] }
CallCurves == { 1, 2 }
CallPercentiles == { 5, 50 }

CallInit ==
    /\ pc = "call"
    /\ rep = 0
    /\ trades \in CallPools
    /\ fraction = Unset /\ tail_risk = Unset /\ safe_f = Unset
    /\ done = FALSE
    /\ forecast_length = 0
    /\ CDF_equity = <<>> /\ TWR25 = Unset /\ CAR25 = <<>>
    /\ ret = <<>>
    /\ error = "none"
    /\ \E frac \in CallFractions, fl \in CallLengths, ic \in CallCapitals :
          \/ /\ sim = SimFrame(frac, fl, ic)
             /\ est = Idle
             /\ call = [fn |-> "make_one_equity_sequence", fraction |-> frac,
                        forecast_length |-> fl, initial_capital |-> ic]
          \/ \E ns \in CallCurves, tp \in CallPercentiles :
                /\ sim = Idle
                /\ est = DrawdownFrame(frac, fl, ic, ns, tp)
                /\ call = [fn |-> "analyze_distribution_of_drawdown",
                           fraction |-> frac, forecast_length |-> fl,
                           initial_capital |-> ic, number_sequences |-> ns,
                           tail_percentile |-> tp]
          \/ \E ns \in CallCurves :
                /\ sim = Idle
                /\ est = EquityFrame(frac, fl, ic, ns)
                /\ call = [fn |-> "form_distribution_of_equity",
                           fraction |-> frac, forecast_length |-> fl,
                           initial_capital |-> ic, number_sequences |-> ns]

\* line 237: make_one_equity_sequence returns (equity, max_drawdown)
CallSimReturn ==
    /\ pc = "call"
    /\ est = Idle
    /\ SimFinished
    /\ ret' = <<sim.equity, sim.max_drawdown>>
    /\ sim' = Idle
    /\ pc' = "returned"
    /\ UNCHANGED <<driverVars, trades, est, error>>

\* line 271: analyze_distribution_of_drawdown returns tail_risk
CallDrawdownReturn ==
    /\ pc = "call"
    /\ EstFinished
    /\ est.fn = "analyze_distribution_of_drawdown"
    /\ ret' = <<TailRisk(est)>>
    /\ est' = Idle
    /\ pc' = "returned"
    /\ UNCHANGED <<driverVars, trades, sim, error>>

\* line 316: form_distribution_of_equity returns sorted_equity
CallEquityReturn ==
    /\ pc = "call"
    /\ EstFinished
    /\ est.fn = "form_distribution_of_equity"
    /\ ret' = SortedEquity(est)
    /\ est' = Idle
    /\ pc' = "returned"
    /\ UNCHANGED <<driverVars, trades, sim, error>>

CallNext ==
    \/ SimStep \/ SimRaise \/ EstCall \/ EstCollect
    \/ CallSimReturn \/ CallDrawdownReturn \/ CallEquityReturn

CallSpec == CallInit /\ [][CallNext]_vars


\* ------------------------------------------------------------- claims

\* the solver is at line 384 with a rescale the model does not follow
RescaleOutOfModel ==
    /\ pc = "line384"
    /\ ~Converged(tail_risk)
    /\ ~Representable(Rescale(fraction, tail_risk))

\* C1: the safe-f loop always terminates: once entered, it reaches a terminal
\* outcome (converged, or a reported non-convergence) after finitely many
\* passes; no execution rescales the fraction forever.
C1_SolveTerminates == (pc = "while" /\ ~done) ~> (done \/ RescaleOutOfModel)

\* C2: a tail risk of exactly 0 in a pass that has not converged ends the
\* solver in a reported DegenerateRisk failure; the rescale is not performed
\* and the fraction stays as it is (never infinite, never nan).
C2_ZeroTailRiskReported ==
    [][(pc = "line384" /\ tail_risk = Zero /\ ~Converged(tail_risk))
          => (error' = "DegenerateRisk" /\ fraction' = fraction)]_vars

\* C3: on convergence safe_f is the fraction of the converged pass (not the
\* tail risk), and that fraction is the one passed to
\* form_distribution_of_equity.
C3_SafeFIsFraction ==
    /\ (done /\ pc \in {"while", "line400", "line404"}) => safe_f = fraction
    /\ (call.fn = "main" /\ est # Idle
            /\ est.fn = "form_distribution_of_equity")
          => est.fraction = fraction

\* the arguments of the outermost call are invalid
InvalidInput ==
    /\ call.fn # "main"
    /\ \/ Len(trades) = 0
       \/ ~Lt[Zero, call.initial_capital]
       \/ call.forecast_length <= 0
       \/ /\ call.fn # "make_one_equity_sequence"
          /\ call.number_sequences <= 0
       \/ /\ call.fn = "analyze_distribution_of_drawdown"
          /\ call.tail_percentile \notin 0..100

\* C4: on invalid input the failure is reported before any curve is
\* simulated: no trade is drawn, no equity is updated and no curve is
\* collected.
C4_InvalidInputRejected ==
    InvalidInput =>
        /\ sim # Idle => sim.i = 0
        /\ est # Idle => est.i = 0

\* C5: a 25th-percentile terminal wealth <= 0 ends the CAR25 computation in a
\* NonPositiveTerminalWealth failure of its own; the logarithm is not
\* evaluated and no CAR25 is produced.
C5_NonPositiveWealthReported ==
    [][(pc = "line404" /\ Le[TWR25, Zero])
          => (error' = "NonPositiveTerminalWealth" /\ CAR25' = CAR25)]_vars

\* C6: with fraction = 0 and a positive initial capital the equity equals the
\* initial capital after every period, the maximum drawdown is 0, and the
\* curve returns (initial_capital, 0), whatever is drawn.
C6_ZeroFractionKeepsCapital ==
    /\ (sim # Idle /\ sim.fraction = Zero /\ Lt[Zero, sim.initial_capital])
          => /\ sim.equity = sim.initial_capital
             /\ sim.max_drawdown = Zero
             /\ \A k \in 1..sim.i : sim.daily_equity[k] = sim.initial_capital
    /\ (pc = "returned" /\ call.fn = "make_one_equity_sequence"
            /\ call.fraction = Zero /\ Lt[Zero, call.initial_capital])
          => ret = <<call.initial_capital, Zero>>

\* a curve of two periods or more at fraction 0, over a pool of non-zero
\* trades, has returned
C6_Witness ==
    /\ pc = "returned"
    /\ call.fn = "make_one_equity_sequence"
    /\ call.fraction = Zero
    /\ call.forecast_length >= 2
    /\ Lt[Zero, call.initial_capital]
    /\ Len(trades) > 0
    /\ \A k \in 1..Len(trades) : trades[k] # Zero
    /\ ret = <<call.initial_capital, Zero>>

\* the curve started from a positive capital and its equity was never negative
EquityNonNegative(s) ==
    /\ Lt[Zero, s.initial_capital]
    /\ \A k \in 1..s.i : Le[Zero, s.daily_equity[k]]

C7_Inv ==
    (sim # Idle /\ EquityNonNegative(sim))
       => /\ Le[Zero, sim.max_drawdown]
          /\ Le[sim.max_drawdown, One]
          /\ Le[sim.equity, sim.max_equity]
          /\ Le[sim.drawdown, sim.max_drawdown]

C7_Step ==
    (sim # Idle /\ sim' # Idle /\ sim'.i = sim.i + 1 /\ EquityNonNegative(sim'))
       => /\ Le[sim.max_equity, sim'.max_equity]
          /\ Le[sim.max_drawdown, sim'.max_drawdown]
          /\ sim'.drawdown =
                Div[Sub[sim'.max_equity, sim'.equity], sim'.max_equity]

\* C7: within one curve, started from a positive capital and with equity
\* never negative, the running maximum drawdown is in [0, 1] after every
\* period; the drawdown is taken against the running peak of the same curve,
\* which is never below the equity and never decreases.
C7_DrawdownInUnitInterval == [](C7_Inv) /\ [][C7_Step]_vars

\* a curve has made a new peak and then lost part of it
C7_Witness ==
    /\ sim # Idle
    /\ EquityNonNegative(sim)
    /\ sim.i >= 2
    /\ Lt[sim.initial_capital, sim.max_equity]
    /\ Lt[sim.equity, sim.max_equity]
    /\ Lt[Zero, sim.max_drawdown]
    /\ Lt[sim.max_drawdown, One]

\* C8: no operation changes the trade list: its contents, order and length
\* are the same after every step of the simulator, the estimators, the
\* solver and the CAR25 computation.
C8_TradesUnchanged == [][trades' = trades]_vars

\* all repetitions have run on a non-empty pool, each with solver passes and
\* a CAR25 computation
C8_Witness ==
    /\ pc = "exit"
    /\ rep = NumReps
    /\ Len(trades) > 0
    /\ CAR25 # <<>>

\* C9: a distribution estimate honours the configuration it is given: its
\* curves run for the caller's forecast_length from the caller's
\* initial_capital at the caller's fraction, and number_sequences curves
\* are collected.
C9_EstimateHonoursConfiguration ==
    /\ (est # Idle /\ sim # Idle)
          => /\ sim.fraction = est.fraction
             /\ sim.forecast_length = est.forecast_length
             /\ sim.initial_capital = est.initial_capital
    /\ EstFinished => Len(est.max_dd_list) = est.number_sequences

\* C10: the solver's fraction is always finite and strictly positive (and
\* below a sanity bound).
C10_FractionInSaneDomain ==
    fraction # Unset => (Finite(fraction) /\ Lt[Zero, fraction])

=============================================================================
